---- MODULE Spec2Model ----
(***************************************************************************)
(* Model of the target-agnostic USB device controller driver (dcd) of      *)
(* src/src/machine/usb/dcd.go: the pool of controller instances, the       *)
(* device state machine, the event pump and the control endpoint 0         *)
(* dispatcher (SETUP phase and completion phase), with the calls made to   *)
(* the hardware abstraction (dhw) recorded per operation.                  *)
(***************************************************************************)
EXTENDS Integers, Sequences, FiniteSets, TLC

(***************************************************************************)
(* Bounds of the model (inputs of the integrator and of the hardware).     *)
(***************************************************************************)
MaxPort == 1
MaxConfigIn == 2
MaxSliceLen == 9

(***************************************************************************)
(* Compile-time configuration and descriptor constants.  They are declared *)
(* in files of the package other than dcd.go.                              *)
(***************************************************************************)
descCDCACMCount == 1
descHIDCount == 1

classDeviceCDCACM == 0
classDeviceHID == 1

descRequestTypeDirMsk == 128
descRequestTypeDirPos == 7
descRequestTypeDirOut == 0
descRequestTypeDirIn == 128
descRequestTypeTypeMsk == 96
descRequestTypeTypeStandard == 0
descRequestTypeTypeClass == 32
descRequestTypeTypeVendor == 64
descRequestTypeRecipientMsk == 31
descRequestTypeRecipientDevice == 0
descRequestTypeRecipientInterface == 1
descRequestTypeRecipientEndpoint == 2

descRequestStandardGetStatus == 0
descRequestStandardClearFeature == 1
descRequestStandardSetFeature == 3
descRequestStandardSetAddress == 5
descRequestStandardGetDescriptor == 6
descRequestStandardGetConfiguration == 8
descRequestStandardSetConfiguration == 9

descCDCRequestSetLineCoding == 32
descCDCRequestSetControlLineState == 34
descCDCRequestSendBreak == 35
descCDCACMLineCodingSize == 7
descCDCACMInterfaceCtrl == 0

descHIDRequestGetReport == 1
descHIDRequestSetReport == 9
descHIDRequestSetIdle == 10
descHIDSxSize == 8
descHIDInterfaceCount == 5
descHIDInterfaceKeyboard == 0
descHIDInterfaceMouse == 1
descHIDInterfaceSerial == 2
descHIDInterfaceJoystick == 3
descHIDInterfaceMediaKey == 4

descTypeDevice == 1
descTypeConfigure == 2
descTypeString == 3
descTypeQualification == 6
descTypeOtherSpeedConfiguration == 7
descTypeHID == 33
descTypeHIDReport == 34

descLengthDevice == 18
descLengthQualification == 10
descLengthInterface == 9
descCDCACMConfigSize == 75
descHIDConfigSize == 141
descHIDConfigKeyboardPos == 18
descHIDConfigMousePos == 43
descHIDConfigSerialPos == 68
descHIDConfigJoystickPos == 100
descHIDConfigMediaKeyPos == 125
descHIDReportKeyboardLen == 63
descHIDReportMouseLen == 79
descHIDReportSerialLen == 21
descHIDReportJoystickLen == 85
descHIDReportMediaKeyLen == 57

localeDescriptorCount == 4
descLengthLanguage == 4
descCommonManufacturerLen == 6
descCommonProductLen == 3
descCommonSerialNumberLen == 5
classSuffixCDCACMLen == 8
classSuffixHIDLen == 4

(***************************************************************************)
(* dcd.go: pool size, states, events, stages.                              *)
(***************************************************************************)
dcdCount == descCDCACMCount + descHIDCount

dcdStateNotReady == 0
dcdStateDefault == 1
dcdStateAddressed == 2
dcdStateConfigured == 3
dcdStateSuspended == 4

dcdEventInvalid == 0
dcdEventStatusReset == 1
dcdEventStatusResume == 2
dcdEventStatusSuspend == 3
dcdEventStatusError == 4
dcdEventDeviceReady == 5
dcdEventDeviceAddress == 6
dcdEventDeviceConfiguration == 7
dcdEventControlSetup == 8
dcdEventControlComplete == 9
dcdEventTransferComplete == 10
dcdEventTimer == 11

dcdStageSetup == 0
dcdStageDataIn == 1
dcdStageDataOut == 2
dcdStageStatusIn == 3
dcdStageStatusOut == 4
dcdStageStall == 5

statusOK == 0
statusBusy == 1
statusInvalid == 2


(***************************************************************************)
(* Unsigned integer helpers.                                               *)
(***************************************************************************)
RECURSIVE BitAnd(_, _)
BitAnd(a, b) ==
  IF a = 0 \/ b = 0 THEN 0
  ELSE (a % 2) * (b % 2) + 2 * BitAnd(a \div 2, b \div 2)

U8(x) == x % 256

(* The string tables of a class: one entry per language. *)
locale == << [language |-> 1033, descriptors |-> localeDescriptorCount],
             [language |-> 1031, descriptors |-> localeDescriptorCount] >>

(***************************************************************************)
(* dcdSetup: the 8-byte SETUP packet, and its zero value.                  *)
(***************************************************************************)
dcdSetup(bm, req, val, idx, len) ==
  [bmRequestType |-> bm, bRequest |-> req, wValue |-> val,
   wIndex |-> idx, wLength |-> len]

ZeroSetup == dcdSetup(0, 0, 0, 0, 0)

(* direction without the shift down to bit 0. *)
directionUnshifted(s) == BitAnd(s.bmRequestType, descRequestTypeDirMsk)

direction(s) ==
  BitAnd(s.bmRequestType, descRequestTypeDirMsk) \div (2 ^ descRequestTypeDirPos)

(***************************************************************************)
(* The SETUP packet codec.  A uint64 is represented by its eight bytes,    *)
(* least significant first: byte k holds bits 8(k-1) .. 8k-1.              *)
(***************************************************************************)
dcdSetupSize == 8

U16(x) == x % 65536

BitOr(a, b) == a + b - BitAnd(a, b)

(* uint64(x) << bit, for a bit count that is a multiple of 8; what is      *)
(* shifted past bit 63 is lost.                                            *)
Shl64(x, bit) ==
  [k \in 1 .. 8 |->
     LET j == k - 1 - bit \div 8
     IN IF j >= 0 /\ j <= 3 THEN (x \div (256 ^ j)) % 256 ELSE 0]

Or64(u, v) == [k \in 1 .. 8 |-> BitOr(u[k], v[k])]

(* (u & mask) >> bit, for a mask of the given width in bits set at bit. *)
Field64(u, bit, width) ==
  IF width = 8 THEN u[bit \div 8 + 1]
  ELSE u[bit \div 8 + 1] + 256 * u[bit \div 8 + 2]

packU16(b) == b[1] + 256 * b[2]

setup(b) ==
  IF Len(b) >= dcdSetupSize
    THEN dcdSetup(b[1], b[2], packU16(SubSeq(b, 3, Len(b))),
                  packU16(SubSeq(b, 5, Len(b))), packU16(SubSeq(b, 7, Len(b))))
    ELSE ZeroSetup

set(u) ==
  dcdSetup(U8(Field64(u, 0, 8)), U8(Field64(u, 8, 8)), U16(Field64(u, 16, 16)),
           U16(Field64(u, 32, 16)), U16(Field64(u, 48, 16)))

(* pack with the wIndex field masked to its low byte. *)
packIndexLowByte(s) ==
  Or64(Or64(Or64(Or64(Shl64(BitAnd(s.bmRequestType, 255), 0),
                      Shl64(BitAnd(s.bRequest, 255), 8)),
                 Shl64(BitAnd(s.wValue, 65535), 16)),
            Shl64(BitAnd(s.wIndex, 255), 32)),
       Shl64(BitAnd(s.wLength, 65535), 48))

pack(s) ==
  Or64(Or64(Or64(Or64(Shl64(BitAnd(s.bmRequestType, 255), 0),
                      Shl64(BitAnd(s.bRequest, 255), 8)),
                 Shl64(BitAnd(s.wValue, 65535), 16)),
            Shl64(BitAnd(s.wIndex, 65535), 32)),
       Shl64(BitAnd(s.wLength, 65535), 48))

equals(s, t) ==
  /\ s.bmRequestType = t.bmRequestType /\ s.bRequest = t.bRequest
  /\ s.wValue = t.wValue /\ s.wIndex = t.wIndex /\ s.wLength = t.wLength

(***************************************************************************)
(* Program state.                                                          *)
(*   dcdInstance  the pool: per slot the dcd fields, with the setup and    *)
(*                stage fields promoted from the embedded dhw              *)
(*   descCDCACM, descHID  the per-class control scratch (cx) and the       *)
(*                keyboard LED state                                       *)
(*   calls        the dhw calls made by the latest operation, in order     *)
(*   last         the latest operation, its arguments and what it returned *)
(*   active       per slot: a ControlSetup event has been delivered and no *)
(*                ControlComplete event has followed it                    *)
(*   panicked     a run-time panic (index out of range) has stopped the    *)
(*                program                                                  *)
(*   enum         how many steps of the enumeration sequence the latest    *)
(*                events on slot 0 have completed, in order                *)
(*   codec        the operands of the SETUP packet codec: a packet p, a    *)
(*                uint64 u, a byte slice b, and the latest operation       *)
(***************************************************************************)
VARIABLES dcdInstance, descCDCACM, descHID, calls, last, active, panicked,
          enum, codec

vars == <<dcdInstance, descCDCACM, descHID, calls, last, active, panicked,
          enum, codec>>

Nil == -1

Slots == 0 .. dcdCount - 1

ZeroDCD ==
  [dhw |-> Nil, core |-> Nil, port |-> 0,
   cc |-> [id |-> 0, config |-> 0], id |-> 0,
   st |-> dcdStateNotReady, setup |-> ZeroSetup, stage |-> dcdStageSetup]

ZeroBytes(n) == [k \in 1 .. n |-> 0]

(* Addresses handed to the dhw. *)
AddrStatus == 100
AddrCDCACMcx(k) == 200 + k
AddrHIDcx(k) == 300 + k
AddrCDCACMdx(k) == 400 + k
AddrHIDdx(k) == 500 + k

B(b) == IF b THEN 1 ELSE 0

(* The working context of a handler: the instance it runs on, the class    *)
(* scratch, the dhw calls made so far, and whether it has panicked.        *)
Ctx(d) ==
  [d |-> d, acm |-> descCDCACM, hid |-> descHID, calls |-> <<>>, panic |-> FALSE]

Call(c, fn, args) ==
  [c EXCEPT !.calls = Append(@, [fn |-> fn, args |-> args])]

Panic(c) == [c EXCEPT !.panic = TRUE]

(* setState with the Addressed case also accepting Configured. *)
setStateAddressedFromConfigured(d, state) ==
  LET curr == d.st
      ok == CASE state = dcdStateNotReady -> TRUE
              [] state = dcdStateDefault ->
                   curr = dcdStateNotReady \/ curr = dcdStateDefault
              [] state = dcdStateAddressed ->
                   curr = dcdStateDefault \/ curr = dcdStateConfigured
              [] state = dcdStateConfigured ->
                   curr = dcdStateAddressed \/ curr = dcdStateConfigured
                     \/ curr = dcdStateSuspended
              [] state = dcdStateSuspended ->
                   curr = dcdStateAddressed \/ curr = dcdStateConfigured
                     \/ curr = dcdStateSuspended
              [] OTHER -> FALSE
  IN [ok |-> ok, d |-> IF ok THEN [d EXCEPT !.st = state] ELSE d]

(* setState with the Suspended case also accepting Default. *)
setStateSuspendedFromDefault(d, state) ==
  LET curr == d.st
      ok == CASE state = dcdStateNotReady -> TRUE
              [] state = dcdStateDefault ->
                   curr = dcdStateNotReady \/ curr = dcdStateDefault
              [] state = dcdStateAddressed -> curr = dcdStateDefault
              [] state = dcdStateConfigured ->
                   curr = dcdStateAddressed \/ curr = dcdStateConfigured
                     \/ curr = dcdStateSuspended
              [] state = dcdStateSuspended ->
                   curr = dcdStateDefault \/ curr = dcdStateAddressed
                     \/ curr = dcdStateConfigured \/ curr = dcdStateSuspended
              [] OTHER -> FALSE
  IN [ok |-> ok, d |-> IF ok THEN [d EXCEPT !.st = state] ELSE d]

(* setState with the Default case also accepting Addressed. *)
setStateDefaultFromAddressed(d, state) ==
  LET curr == d.st
      ok == CASE state = dcdStateNotReady -> TRUE
              [] state = dcdStateDefault ->
                   curr = dcdStateNotReady \/ curr = dcdStateDefault
                     \/ curr = dcdStateAddressed
              [] state = dcdStateAddressed -> curr = dcdStateDefault
              [] state = dcdStateConfigured ->
                   curr = dcdStateAddressed \/ curr = dcdStateConfigured
                     \/ curr = dcdStateSuspended
              [] state = dcdStateSuspended ->
                   curr = dcdStateAddressed \/ curr = dcdStateConfigured
                     \/ curr = dcdStateSuspended
              [] OTHER -> FALSE
  IN [ok |-> ok, d |-> IF ok THEN [d EXCEPT !.st = state] ELSE d]

(***************************************************************************)
(* setState: the guarded write of the state byte.                          *)
(***************************************************************************)
setState(d, state) ==
  LET curr == d.st
      ok == CASE state = dcdStateNotReady -> TRUE
              [] state = dcdStateDefault ->
                   curr = dcdStateNotReady \/ curr = dcdStateDefault
              [] state = dcdStateAddressed -> curr = dcdStateDefault
              [] state = dcdStateConfigured ->
                   curr = dcdStateAddressed \/ curr = dcdStateConfigured
                     \/ curr = dcdStateSuspended
              [] state = dcdStateSuspended ->
                   curr = dcdStateAddressed \/ curr = dcdStateConfigured
                     \/ curr = dcdStateSuspended
              [] OTHER -> FALSE
  IN [ok |-> ok, d |-> IF ok THEN [d EXCEPT !.st = state] ELSE d]

(***************************************************************************)
(* initDCD: reserves the first free slot of the pool.                      *)
(***************************************************************************)
FreeSlots(pool) == {i \in Slots : pool[i].core = Nil}

(* The search returning the last free slot instead of the first. *)
LastFree(pool) == CHOOSE i \in FreeSlots(pool) : \A j \in FreeSlots(pool) : i >= j

FirstFree(pool) == CHOOSE i \in FreeSlots(pool) : \A j \in FreeSlots(pool) : i <= j

initDCD(pool, port, speed, class) ==
  IF 0 = dcdCount
    THEN [pool |-> pool, ret |-> Nil, status |-> statusInvalid]
  ELSE IF class.id = classDeviceCDCACM
          /\ (0 = class.config \/ class.config > descCDCACMCount)
    THEN [pool |-> pool, ret |-> Nil, status |-> statusInvalid]
  ELSE IF FreeSlots(pool) # {}
    THEN LET i == FirstFree(pool)
             d == [pool[i] EXCEPT !.dhw = i, !.core = port, !.port = port,
                                  !.cc = class, !.id = i]
         IN [pool |-> [pool EXCEPT ![i] = setState(d, dcdStateNotReady).d],
             ret |-> i, status |-> statusOK]
  ELSE [pool |-> pool, ret |-> Nil, status |-> statusBusy]


(***************************************************************************)
(* Descriptor responder.  The response buffer dx is represented by the     *)
(* number of valid bytes in it (dxn).                                      *)
(***************************************************************************)
Locales == 1 .. Len(locale)

(* Length of the string the descriptor at the given index is rewritten to. *)
StringLen(index, suffix) ==
  CASE index = 1 -> descCommonManufacturerLen
    [] index = 2 -> descCommonProductLen + suffix
    [] index = 3 -> descCommonSerialNumberLen
    [] OTHER -> 0

(* The first locale whose language is wIndex and which has a descriptor at *)
(* the requested index; 0 when the search finds none.                      *)
FindLocale(sup) ==
  LET hit == {k \in Locales : /\ sup.wIndex = locale[k].language
                              /\ U8(sup.wValue) < locale[k].descriptors}
  IN IF hit = {} THEN 0 ELSE CHOOSE k \in hit : \A j \in hit : k <= j

(* dxn of a string descriptor request: sd[0] of the selected descriptor,   *)
(* 0 when no descriptor was selected.                                      *)
StringDxn(sup, suffix) ==
  IF 0 = Len(locale) THEN 0
  ELSE IF 0 = U8(sup.wValue) THEN descLengthLanguage
  ELSE IF FindLocale(sup) = 0 THEN 0
  ELSE U8(2 + 2 * StringLen(U8(sup.wValue), suffix))

(* The language index clamped to the last locale. *)
LanguageCodeClamped(sup) ==
  IF sup.wIndex >= Len(locale) THEN Len(locale) - 1 ELSE sup.wIndex

(* The locale (counted from 0) a language-list request reads: wIndex, or 0 *)
(* when wIndex is no index of locale.                                      *)
LanguageCode(sup) ==
  IF sup.wIndex >= Len(locale) THEN 0 ELSE sup.wIndex

(* sd of a string descriptor request: the locale (counted from 0) and the  *)
(* descriptor index it was taken from, <<>> when sd stays nil.             *)
StringSource(sup) ==
  IF 0 = Len(locale) THEN <<>>
  ELSE IF 0 = U8(sup.wValue) THEN <<LanguageCode(sup), BitAnd(sup.wValue, 255)>>
  ELSE IF FindLocale(sup) = 0 THEN <<>>
  ELSE <<FindLocale(sup) - 1, BitAnd(sup.wValue, 255)>>

(* The copy of the string descriptor sd into the response buffer.          *)
StringCopied(c, sup, addr) ==
  IF sup.wValue \div 256 = descTypeString /\ StringSource(sup) # <<>>
    THEN Call(c, "copy", <<addr>> \o StringSource(sup))
    ELSE c

(* The tail of the responders transmitting also when there is no data. *)
RespondAlways(c, sup, dxn0, addr) ==
  LET dxn == IF dxn0 > U8(sup.wLength) THEN U8(sup.wLength) ELSE dxn0
  IN Call(Call(c, "flushCache", <<addr, dxn>>),
          "controlTransmit", <<addr, dxn, B(FALSE)>>)

(* The tail of both responders: clamp to the low byte of wLength, flush,   *)
(* transmit.                                                               *)
Respond(c, sup, dxn0, addr) ==
  IF dxn0 > 0
    THEN LET dxn == IF dxn0 > U8(sup.wLength) THEN U8(sup.wLength) ELSE dxn0
         IN Call(Call(c, "flushCache", <<addr, dxn>>),
                 "controlTransmit", <<addr, dxn, B(FALSE)>>)
    ELSE c

controlDescriptorCDCACM(c, sup) ==
  IF c.d.cc.config - 1 \notin 0 .. descCDCACMCount - 1 THEN Panic(c)
  ELSE
    LET k == c.d.cc.config
        type == sup.wValue \div 256
        dxn == CASE type = descTypeDevice -> descLengthDevice
                 [] type = descTypeConfigure -> U8(descCDCACMConfigSize)
                 [] type = descTypeString -> StringDxn(sup, classSuffixCDCACMLen)
                 [] type = descTypeQualification -> descLengthQualification
                 [] type = descTypeOtherSpeedConfiguration -> 0
                 [] OTHER -> 0
    IN Respond(StringCopied(c, sup, AddrCDCACMdx(k)), sup, dxn, AddrCDCACMdx(k))

HIDConfigPos(wIndex) ==
  CASE wIndex = descHIDInterfaceKeyboard -> descHIDConfigKeyboardPos
    [] wIndex = descHIDInterfaceMouse -> descHIDConfigMousePos
    [] wIndex = descHIDInterfaceSerial -> descHIDConfigSerialPos
    [] wIndex = descHIDInterfaceJoystick -> descHIDConfigJoystickPos
    [] wIndex = descHIDInterfaceMediaKey -> descHIDConfigMediaKeyPos
    [] OTHER -> 0

HIDReportLen(wIndex) ==
  CASE wIndex = descHIDInterfaceKeyboard -> U8(descHIDReportKeyboardLen)
    [] wIndex = descHIDInterfaceMouse -> U8(descHIDReportMouseLen)
    [] wIndex = descHIDInterfaceSerial -> U8(descHIDReportSerialLen)
    [] wIndex = descHIDInterfaceJoystick -> U8(descHIDReportJoystickLen)
    [] wIndex = descHIDInterfaceMediaKey -> U8(descHIDReportMediaKeyLen)
    [] OTHER -> 0

controlDescriptorHID(c, sup) ==
  IF c.d.cc.config - 1 \notin 0 .. descHIDCount - 1 THEN Panic(c)
  ELSE
    LET k == c.d.cc.config
        type == sup.wValue \div 256
        dxn == CASE type = descTypeDevice -> descLengthDevice
                 [] type = descTypeConfigure -> U8(descHIDConfigSize)
                 [] type = descTypeString -> StringDxn(sup, classSuffixHIDLen)
                 [] type = descTypeQualification -> descLengthQualification
                 [] type = descTypeOtherSpeedConfiguration -> 0
                 [] type = descTypeHID ->
                      IF 0 # HIDConfigPos(sup.wIndex) THEN descLengthInterface ELSE 0
                 [] type = descTypeHIDReport -> HIDReportLen(sup.wIndex)
                 [] OTHER -> 0
    IN Respond(StringCopied(c, sup, AddrHIDdx(k)), sup, dxn, AddrHIDdx(k))


(***************************************************************************)
(* controlSetup: the SETUP phase of the control endpoint 0 dispatcher.     *)
(* hw is the value the dhw returns from endpointStatus.                    *)
(***************************************************************************)
RECURSIVE event(_, _, _)

Staged(stage, c) == [stage |-> stage, c |-> c]

StatusReceive(c) == Call(c, "controlReceive", <<0, 0, B(FALSE)>>)

(* SetConfiguration without the nested DeviceConfiguration event. *)
SetConfigurationNoEvent(c, sup, hw) ==
  LET cfg == IF 0 = sup.wValue \/ sup.wValue > dcdCount THEN 1 ELSE sup.wValue
      c1 == [c EXCEPT !.d.cc.config = cfg]
      c2 == CASE c1.d.cc.id = classDeviceCDCACM ->
                   StatusReceive(Call(c1, "uartConfigure", <<>>))
              [] c1.d.cc.id = classDeviceHID ->
                   StatusReceive(
                     Call(Call(Call(Call(c1, "serialConfigure", <<>>),
                                    "keyboardConfigure", <<>>),
                               "mouseConfigure", <<>>),
                          "joystickConfigure", <<>>))
              [] OTHER -> c1
  IN Staged(dcdStageStatusOut, c2)

(* SetConfiguration storing wValue as received. *)
SetConfigurationAsReceived(c, sup, hw) ==
  LET c1 == event([c EXCEPT !.d.cc.config = sup.wValue],
                  [id |-> dcdEventDeviceConfiguration, setup |-> ZeroSetup], hw)
      c2 == CASE c1.d.cc.id = classDeviceCDCACM ->
                   StatusReceive(Call(c1, "uartConfigure", <<>>))
              [] c1.d.cc.id = classDeviceHID ->
                   StatusReceive(
                     Call(Call(Call(Call(c1, "serialConfigure", <<>>),
                                    "keyboardConfigure", <<>>),
                               "mouseConfigure", <<>>),
                          "joystickConfigure", <<>>))
              [] OTHER -> c1
  IN Staged(dcdStageStatusOut, c2)

(* SetConfiguration answering only when the controller became Configured. *)
SetConfigurationWhenAccepted(c, sup, hw) ==
  LET cfg == IF 0 = sup.wValue \/ sup.wValue > dcdCount THEN 1 ELSE sup.wValue
      c1 == event([c EXCEPT !.d.cc.config = cfg],
                  [id |-> dcdEventDeviceConfiguration, setup |-> ZeroSetup], hw)
      c2 == CASE c1.d.st # dcdStateConfigured -> c1
              [] c1.d.cc.id = classDeviceCDCACM ->
                   StatusReceive(Call(c1, "uartConfigure", <<>>))
              [] c1.d.cc.id = classDeviceHID ->
                   StatusReceive(
                     Call(Call(Call(Call(c1, "serialConfigure", <<>>),
                                    "keyboardConfigure", <<>>),
                               "mouseConfigure", <<>>),
                          "joystickConfigure", <<>>))
              [] OTHER -> c1
  IN Staged(dcdStageStatusOut, c2)

SetConfiguration(c, sup, hw) ==
  LET cfg == IF 0 = sup.wValue \/ sup.wValue > dcdCount THEN 1 ELSE sup.wValue
      c1 == event([c EXCEPT !.d.cc.config = cfg],
                  [id |-> dcdEventDeviceConfiguration, setup |-> ZeroSetup], hw)
      c2 == CASE c1.d.cc.id = classDeviceCDCACM ->
                   StatusReceive(Call(c1, "uartConfigure", <<>>))
              [] c1.d.cc.id = classDeviceHID ->
                   StatusReceive(
                     Call(Call(Call(Call(c1, "serialConfigure", <<>>),
                                    "keyboardConfigure", <<>>),
                               "mouseConfigure", <<>>),
                          "joystickConfigure", <<>>))
              [] OTHER -> c1
  IN Staged(dcdStageStatusOut, c2)

GetDescriptor(c, sup) ==
  CASE c.d.cc.id = classDeviceCDCACM ->
         Staged(dcdStageDataIn, controlDescriptorCDCACM(c, sup))
    [] c.d.cc.id = classDeviceHID ->
         Staged(dcdStageDataIn, controlDescriptorHID(c, sup))
    [] OTHER -> Staged(dcdStageStall, c)

StatusTransmit(c, bytes) ==
  Call(Call(c, "controlStatusBuffer", bytes),
       "controlTransmit", <<AddrStatus, Len(bytes), B(FALSE)>>)

controlSetupStandard(c, sup, hw) ==
  LET rd == BitAnd(sup.bmRequestType,
                   descRequestTypeRecipientMsk + descRequestTypeDirMsk)
      req == sup.bRequest
  IN CASE rd = descRequestTypeRecipientDevice + descRequestTypeDirOut ->
            (CASE req = descRequestStandardSetAddress ->
                    Staged(dcdStageStatusOut,
                           StatusReceive(Call(c, "setDeviceAddress", <<sup.wValue>>)))
               [] req = descRequestStandardSetConfiguration ->
                    SetConfiguration(c, sup, hw)
               [] OTHER -> Staged(dcdStageStall, c))
       [] rd = descRequestTypeRecipientDevice + descRequestTypeDirIn ->
            (CASE req = descRequestStandardGetStatus ->
                    Staged(dcdStageDataIn, StatusTransmit(c, <<0, 0>>))
               [] req = descRequestStandardGetDescriptor -> GetDescriptor(c, sup)
               [] req = descRequestStandardGetConfiguration ->
                    Staged(dcdStageDataIn, StatusTransmit(c, <<U8(c.d.cc.config)>>))
               [] OTHER -> Staged(dcdStageStall, c))
       [] rd = descRequestTypeRecipientInterface + descRequestTypeDirIn ->
            (CASE req = descRequestStandardGetDescriptor -> GetDescriptor(c, sup)
               [] req = descHIDRequestGetReport ->
                    IF c.d.cc.id = classDeviceHID
                      THEN Staged(dcdStageDataIn, controlDescriptorHID(c, sup))
                      ELSE Staged(dcdStageStall, c)
               [] OTHER -> Staged(dcdStageStall, c))
       [] rd = descRequestTypeRecipientEndpoint + descRequestTypeDirOut ->
            (CASE req = descRequestStandardClearFeature ->
                    Staged(dcdStageStatusOut,
                           StatusReceive(Call(c, "endpointClearFeature",
                                              <<U8(sup.wIndex)>>)))
               [] req = descRequestStandardSetFeature ->
                    Staged(dcdStageStatusOut,
                           StatusReceive(Call(c, "endpointSetFeature",
                                              <<U8(sup.wIndex)>>)))
               [] OTHER -> Staged(dcdStageStall, c))
       [] rd = descRequestTypeRecipientEndpoint + descRequestTypeDirIn ->
            (CASE req = descRequestStandardGetStatus ->
                    Staged(dcdStageDataIn,
                           StatusTransmit(Call(c, "endpointStatus", <<U8(sup.wIndex)>>),
                                          <<U8(hw), U8(hw \div 256)>>))
               [] OTHER -> Staged(dcdStageStall, c))
       [] OTHER -> Staged(dcdStageStall, c)

(* SetLineCoding without the check of wLength. *)
SetLineCodingAnyLength(c, sup) ==
  IF c.d.cc.id = classDeviceCDCACM
    THEN IF c.d.cc.config - 1 \notin 0 .. descCDCACMCount - 1
           THEN Staged(dcdStageStall, Panic(c))
           ELSE Staged(dcdStageDataOut,
                       Call(c, "controlReceive",
                            <<AddrCDCACMcx(c.d.cc.config), descCDCACMLineCodingSize,
                              B(TRUE)>>))
    ELSE Staged(dcdStageStall, c)

SetLineCoding(c, sup) ==
  IF c.d.cc.id = classDeviceCDCACM /\ descCDCACMLineCodingSize = sup.wLength
    THEN IF c.d.cc.config - 1 \notin 0 .. descCDCACMCount - 1
           THEN Staged(dcdStageStall, Panic(c))
           ELSE Staged(dcdStageDataOut,
                       Call(c, "controlReceive",
                            <<AddrCDCACMcx(c.d.cc.config), descCDCACMLineCodingSize,
                              B(TRUE)>>))
    ELSE Staged(dcdStageStall, c)

(* SetReport arming the receive without seeding the scratch. *)
SetReportNoSentinel(c, sup) ==
  IF c.d.cc.id = classDeviceHID /\ sup.wLength <= descHIDSxSize
    THEN IF c.d.cc.config - 1 \notin 0 .. descHIDCount - 1
           THEN Staged(dcdStageStall, Panic(c))
           ELSE Staged(dcdStageDataOut,
                       Call(c, "controlReceive",
                            <<AddrHIDcx(c.d.cc.config), sup.wLength, B(TRUE)>>))
    ELSE Staged(dcdStageStall, c)

SetReport(c, sup) ==
  IF c.d.cc.id = classDeviceHID /\ sup.wLength <= descHIDSxSize
    THEN IF c.d.cc.config - 1 \notin 0 .. descHIDCount - 1
           THEN Staged(dcdStageStall, Panic(c))
           ELSE Staged(dcdStageDataOut,
                       Call([c EXCEPT !.hid[c.d.cc.config].cx[1] = 233],
                            "controlReceive",
                            <<AddrHIDcx(c.d.cc.config), sup.wLength, B(TRUE)>>))
    ELSE Staged(dcdStageStall, c)

controlSetupClass(c, sup) ==
  LET rd == BitAnd(sup.bmRequestType,
                   descRequestTypeRecipientMsk + descRequestTypeDirMsk)
      req == sup.bRequest
      id == c.d.cc.id
  IN CASE rd = descRequestTypeRecipientInterface + descRequestTypeDirOut ->
            (CASE req = descCDCRequestSetLineCoding -> SetLineCoding(c, sup)
               [] req = descCDCRequestSetControlLineState ->
                    IF id = classDeviceCDCACM /\ sup.wIndex = descCDCACMInterfaceCtrl
                      THEN Staged(dcdStageStatusOut, StatusReceive(c))
                      ELSE Staged(dcdStageStall, c)
               [] req = descCDCRequestSendBreak ->
                    IF id = classDeviceCDCACM
                      THEN Staged(dcdStageStatusOut, StatusReceive(c))
                      ELSE Staged(dcdStageStall, c)
               [] req = descHIDRequestSetReport -> SetReport(c, sup)
               [] req = descHIDRequestSetIdle ->
                    IF id = classDeviceHID
                      THEN Staged(dcdStageStatusOut, StatusReceive(c))
                      ELSE Staged(dcdStageStall, c)
               [] OTHER -> Staged(dcdStageStall, c))
       [] rd = descRequestTypeRecipientInterface + descRequestTypeDirIn ->
            (CASE req = descHIDRequestGetReport ->
                    IF id = classDeviceHID
                      THEN Staged(dcdStageDataIn, StatusTransmit(c, <<0, 0>>))
                      ELSE Staged(dcdStageStall, c)
               [] OTHER -> Staged(dcdStageStall, c))
       [] OTHER -> Staged(dcdStageStall, c)

(* controlSetup with the Vendor case falling through to the class handler. *)
controlSetupVendorAsClass(c, sup, hw) ==
  LET type == BitAnd(sup.bmRequestType, descRequestTypeTypeMsk)
  IN CASE type = descRequestTypeTypeStandard -> controlSetupStandard(c, sup, hw)
       [] type = descRequestTypeTypeClass -> controlSetupClass(c, sup)
       [] type = descRequestTypeTypeVendor -> controlSetupClass(c, sup)
       [] OTHER -> Staged(dcdStageStall, c)

controlSetup(c, sup, hw) ==
  LET type == BitAnd(sup.bmRequestType, descRequestTypeTypeMsk)
  IN CASE type = descRequestTypeTypeStandard -> controlSetupStandard(c, sup, hw)
       [] type = descRequestTypeTypeClass -> controlSetupClass(c, sup)
       [] type = descRequestTypeTypeVendor -> Staged(dcdStageStall, c)
       [] OTHER -> Staged(dcdStageStall, c)

(***************************************************************************)
(* controlComplete: the completion phase, run on the stored SETUP packet.  *)
(***************************************************************************)
packU32(b) == b[1] + 256 * b[2] + 65536 * b[3] + 16777216 * b[4]

CompleteLineCoding(c) ==
  IF c.d.cc.id = classDeviceCDCACM
    THEN IF c.d.cc.config - 1 \notin 0 .. descCDCACMCount - 1 THEN Panic(c)
         ELSE IF c.d.setup.wIndex = descCDCACMInterfaceCtrl
           THEN Call(c, "uartSetLineCoding", c.acm[c.d.cc.config].cx)
           ELSE c
    ELSE c

CompleteLineState(c) ==
  IF c.d.cc.id = classDeviceCDCACM /\ c.d.setup.wIndex = descCDCACMInterfaceCtrl
    THEN Call(c, "uartSetLineState", <<c.d.setup.wValue>>)
    ELSE c

(* CompleteSetReport without the check of wLength on the Serial interface. *)
CompleteSetReportAnyLength(c) ==
  IF c.d.cc.id = classDeviceHID
    THEN IF c.d.cc.config - 1 \notin 0 .. descHIDCount - 1 THEN Panic(c)
         ELSE LET k == c.d.cc.config
                  sup == c.d.setup
              IN CASE sup.wIndex = descHIDInterfaceKeyboard ->
                        IF sup.wValue \div 256 = descTypeConfigure /\ 1 = sup.wLength
                          THEN Call([c EXCEPT !.hid[k].led = c.hid[k].cx[1]],
                                    "controlTransmit", <<0, 0, B(FALSE)>>)
                          ELSE c
                   [] sup.wIndex = descHIDInterfaceSerial ->
                        IF /\ sup.wValue \div 256 = descTypeString
                           /\ 1757562281 = packU32(c.hid[k].cx)
                          THEN Call(c, "enableSOF", <<B(TRUE), descHIDInterfaceCount>>)
                          ELSE c
                   [] OTHER -> c
    ELSE c

CompleteSetReport(c) ==
  IF c.d.cc.id = classDeviceHID
    THEN IF c.d.cc.config - 1 \notin 0 .. descHIDCount - 1 THEN Panic(c)
         ELSE LET k == c.d.cc.config
                  sup == c.d.setup
              IN CASE sup.wIndex = descHIDInterfaceKeyboard ->
                        IF sup.wValue \div 256 = descTypeConfigure /\ 1 = sup.wLength
                          THEN Call([c EXCEPT !.hid[k].led = c.hid[k].cx[1]],
                                    "controlTransmit", <<0, 0, B(FALSE)>>)
                          ELSE c
                   [] sup.wIndex = descHIDInterfaceSerial ->
                        IF /\ sup.wValue \div 256 = descTypeString
                           /\ sup.wLength >= 4
                           /\ 1757562281 = packU32(c.hid[k].cx)
                          THEN Call(c, "enableSOF", <<B(TRUE), descHIDInterfaceCount>>)
                          ELSE c
                   [] OTHER -> c
    ELSE c

controlComplete(c) ==
  LET sup == c.d.setup
      type == BitAnd(sup.bmRequestType, descRequestTypeTypeMsk)
      rd == BitAnd(sup.bmRequestType,
                   descRequestTypeRecipientMsk + descRequestTypeDirMsk)
  IN IF /\ type = descRequestTypeTypeClass
        /\ rd = descRequestTypeRecipientInterface + descRequestTypeDirOut
       THEN CASE sup.bRequest = descCDCRequestSetLineCoding -> CompleteLineCoding(c)
              [] sup.bRequest = descCDCRequestSetControlLineState -> CompleteLineState(c)
              [] sup.bRequest = descHIDRequestSetReport -> CompleteSetReport(c)
              [] OTHER -> c
       ELSE c

(***************************************************************************)
(* event: the event pump.                                                  *)
(***************************************************************************)
(* A state write that skips the transition guard. *)
SetStateInUnguarded(c, state) == [c EXCEPT !.d.st = state]

(* A state write that also clears the stored SETUP packet on reset. *)
SetStateInClearingSetup(c, state) ==
  LET e == [c EXCEPT !.d = setState(c.d, state).d]
  IN IF state = dcdStateNotReady THEN [e EXCEPT !.d.setup = ZeroSetup] ELSE e

SetStateIn(c, state) == [c EXCEPT !.d = setState(c.d, state).d]

(* The stage applied with the stored SETUP packet cleared on a stall. *)
StageAppliedClearOnStall(r, ev) ==
  IF r.c.panic THEN r.c
  ELSE IF r.stage = dcdStageStall
    THEN Call([r.c EXCEPT !.d.stage = r.stage, !.d.setup = ZeroSetup],
              "controlStall", <<B(TRUE), direction(ev.setup)>>)
    ELSE [r.c EXCEPT !.d.stage = r.stage]

StageApplied(r, ev) ==
  IF r.c.panic THEN r.c
  ELSE IF r.stage = dcdStageStall
    THEN Call([r.c EXCEPT !.d.stage = r.stage], "controlStall",
              <<B(TRUE), direction(ev.setup)>>)
    ELSE [r.c EXCEPT !.d.stage = r.stage]

eventControlSetup(c, ev, hw) ==
  StageApplied(controlSetup([c EXCEPT !.d.setup = ev.setup], ev.setup, hw), ev)

(* The completion returning without clearing the stored SETUP packet. *)
SetupKept(c) == c

SetupCleared(c) == IF c.panic THEN c ELSE [c EXCEPT !.d.setup = ZeroSetup]

eventControlComplete(c) ==
  SetupCleared(controlComplete(c))

event(c, ev, hw) ==
  CASE ev.id = dcdEventStatusReset -> SetStateIn(c, dcdStateNotReady)
    [] ev.id = dcdEventStatusResume -> SetStateIn(c, dcdStateConfigured)
    [] ev.id = dcdEventStatusSuspend -> SetStateIn(c, dcdStateSuspended)
    [] ev.id = dcdEventDeviceReady ->
         IF setState(c.d, dcdStateDefault).ok
           THEN Call(SetStateIn(c, dcdStateDefault), "endpointEnable",
                     <<0, B(TRUE), 0>>)
           ELSE c
    [] ev.id = dcdEventDeviceAddress -> SetStateIn(c, dcdStateAddressed)
    [] ev.id = dcdEventDeviceConfiguration -> SetStateIn(c, dcdStateConfigured)
    [] ev.id = dcdEventControlSetup -> eventControlSetup(c, ev, hw)
    [] ev.id = dcdEventControlComplete -> eventControlComplete(c)
    [] OTHER -> c


(***************************************************************************)
(* Inputs.                                                                 *)
(***************************************************************************)
Ports == 0 .. MaxPort
Speeds == {0, 1}
ClassIdInputs == {classDeviceCDCACM, classDeviceHID, 2}
ClassInputs == [id : ClassIdInputs, config : 0 .. MaxConfigIn]

(* Event ids without a payload: every id but ControlSetup and              *)
(* ControlComplete, and one id (12) that is no defined event.              *)
PlainEventIds == (0 .. 12) \ {dcdEventControlSetup, dcdEventControlComplete}

BmInputs == {0, 128, 1, 129, 2, 130, 3, 33, 161, 34, 64, 65, 192, 96}
ReqInputs == {0, 1, 3, 5, 6, 8, 9, 10, 32, 34, 35, 255}

(* Every request type / recipient / direction against every request code.  *)
GridSetups == {dcdSetup(bm, req, 0, 0, 0) : bm \in BmInputs, req \in ReqInputs}

(* Requests with the parameters the handled rows look at. *)
ParamSetups ==
  {dcdSetup(0, descRequestStandardSetConfiguration, v, 0, 0) : v \in {1, 2, 3, 65535}}
  \cup {dcdSetup(0, descRequestStandardSetConfiguration, 0, w, 0) : w \in {1, 2}}
  \cup {dcdSetup(128, descRequestStandardGetDescriptor, v, w[1], w[2]) :
          v \in {256, 512, 768, 770, 1536, 1792, 8448, 8704},
          w \in {<<0, 18>>, <<1033, 255>>}}
  \cup {dcdSetup(129, descRequestStandardGetDescriptor, v, 2, 64) : v \in {8448, 8704}}
  \cup {dcdSetup(128, descRequestStandardGetDescriptor, v, 0, len) :
          v \in {256, 512}, len \in {0, 8, 9, 256, 264, 300, 65535}}
  \cup {dcdSetup(2, descRequestStandardClearFeature, 0, 129, 0),
        dcdSetup(130, descRequestStandardGetStatus, 0, 129, 2)}
  \cup {dcdSetup(33, descCDCRequestSetLineCoding, 0, 0, 7),
        dcdSetup(33, descCDCRequestSetLineCoding, 0, 1, 7),
        dcdSetup(33, descCDCRequestSetControlLineState, 3, 0, 0),
        dcdSetup(33, descCDCRequestSetControlLineState, 3, 1, 0)}
  \cup {dcdSetup(33, descHIDRequestSetReport, 768, 2, 4),
        dcdSetup(33, descHIDRequestSetReport, 512, 0, 1),
        dcdSetup(33, descHIDRequestSetReport, 768, 2, 9)}
  \cup {dcdSetup(33, descCDCRequestSetLineCoding, 0, 1, 8),
        dcdSetup(33, descHIDRequestSetReport, 768, 1, 4),
        dcdSetup(33, descHIDRequestSetReport, 768, 1, 9),
        dcdSetup(65, descCDCRequestSetControlLineState, 3, 0, 0)}
  \cup {dcdSetup(128, descRequestStandardGetDescriptor, 768, w, 255) :
          w \in {1, 2, 3, 1031}}
  \cup {dcdSetup(128, descRequestStandardGetDescriptor, 770, w, 255) :
          w \in {0, 1, 1031, 1036}}
  \cup {dcdSetup(129, descRequestStandardGetDescriptor, v, 7, 64) : v \in {8448, 8704}}
  \cup {dcdSetup(128, descRequestStandardGetDescriptor, 3840, 0, 64)}

(* The SETUP packets the bus delivers in the behaviours explored: the      *)
(* requests of an enumeration, of each class, and malformed ones.          *)
StepSetups ==
  { ZeroSetup,
    dcdSetup(192, 255, 0, 0, 0),
    dcdSetup(128, descRequestStandardGetDescriptor, 256, 0, 18),
    dcdSetup(128, descRequestStandardGetDescriptor, 256, 0, 256),
    dcdSetup(128, descRequestStandardGetDescriptor, 1792, 0, 255),
    dcdSetup(128, descRequestStandardGetDescriptor, 768, 0, 255),
    dcdSetup(128, descRequestStandardGetDescriptor, 770, 1033, 255),
    dcdSetup(0, descRequestStandardSetAddress, 5, 0, 0),
    dcdSetup(0, descRequestStandardSetConfiguration, 1, 0, 0),
    dcdSetup(0, descRequestStandardSetConfiguration, 2, 0, 0),
    dcdSetup(0, descRequestStandardSetConfiguration, 3, 0, 0),
    dcdSetup(128, descRequestStandardGetConfiguration, 0, 0, 1),
    dcdSetup(128, descRequestStandardGetStatus, 0, 0, 2),
    dcdSetup(130, descRequestStandardGetStatus, 0, 129, 2),
    dcdSetup(2, descRequestStandardClearFeature, 0, 129, 0),
    dcdSetup(33, descCDCRequestSetLineCoding, 0, 0, 7),
    dcdSetup(33, descCDCRequestSetLineCoding, 0, 0, 8),
    dcdSetup(33, descCDCRequestSetControlLineState, 3, 0, 0),
    dcdSetup(33, descCDCRequestSetControlLineState, 3, 1, 0),
    dcdSetup(33, descHIDRequestSetReport, 768, 2, 4),
    dcdSetup(33, descHIDRequestSetReport, 512, 0, 1),
    dcdSetup(33, descHIDRequestSetReport, 768, 2, 9),
    dcdSetup(33, descHIDRequestSetIdle, 0, 0, 0),
    dcdSetup(161, descHIDRequestGetReport, 0, 0, 2) }

(* The SETUP packets the dispatcher is evaluated on. *)
SetupInputs == GridSetups \cup ParamSetups \cup StepSetups

(* The SETUP packets of the transfers that have a data stage or a          *)
(* completion: the class requests, well-formed and malformed, and the      *)
(* requests that change what they are dispatched on.                       *)
DataSetups ==
  { dcdSetup(33, descCDCRequestSetLineCoding, 0, 0, 7),
    dcdSetup(33, descCDCRequestSetLineCoding, 0, 1, 7),
    dcdSetup(33, descCDCRequestSetLineCoding, 0, 0, 8),
    dcdSetup(33, descCDCRequestSetControlLineState, 3, 0, 0),
    dcdSetup(33, descHIDRequestSetReport, 768, 2, 4),
    dcdSetup(33, descHIDRequestSetReport, 768, 2, 3),
    dcdSetup(33, descHIDRequestSetReport, 768, 2, 8),
    dcdSetup(33, descHIDRequestSetReport, 768, 2, 9),
    dcdSetup(33, descHIDRequestSetReport, 768, 1, 4),
    dcdSetup(33, descHIDRequestSetReport, 512, 2, 4),
    dcdSetup(33, descHIDRequestSetReport, 512, 0, 1),
    dcdSetup(0, descRequestStandardSetConfiguration, 1, 0, 0),
    dcdSetup(0, descRequestStandardSetConfiguration, 2, 0, 0),
    dcdSetup(192, 255, 0, 0, 0) }

(* What the host may send in the data stage of an OUT transfer: to a       *)
(* CDC-ACM device the line codings 9600 8N1 and 115200 8N1, to a HID       *)
(* device the key 0x68C245A9 and a near miss of it.                        *)
PayloadInputs(id) ==
  IF id = classDeviceCDCACM
    THEN { <<128, 37, 0, 0, 0, 0, 8, 0>>, <<0, 194, 1, 0, 0, 0, 8, 0>> }
    ELSE { <<169, 69, 194, 104, 0, 0, 0, 0>>, <<169, 69, 194, 105, 2, 0, 0, 0>> }

(* The operands of the codec. *)
PacketInputs ==
  { dcdSetup(bm, req, val, idx, len) :
      bm \in {0, 1, 128, 255}, req \in {0, 9, 255}, val \in {0, 1, 256, 65535},
      idx \in {0, 1033, 65535}, len \in {0, 255, 256, 65535} }

U64Inputs == [1 .. 8 -> {0, 1, 255}]

ByteSliceInputs == UNION { [1 .. n -> {0, 1, 255}] : n \in 0 .. MaxSliceLen }

Zero64 == [k \in 1 .. 8 |-> 0]

(* The enumeration sequence a host runs on a freshly attached device. *)
EnumSteps ==
  << [id |-> dcdEventDeviceReady, setup |-> ZeroSetup],
     [id |-> dcdEventControlSetup,
      setup |-> dcdSetup(128, descRequestStandardGetDescriptor, 256, 0, 18)],
     [id |-> dcdEventControlSetup,
      setup |-> dcdSetup(0, descRequestStandardSetAddress, 5, 0, 0)],
     [id |-> dcdEventDeviceAddress, setup |-> ZeroSetup],
     [id |-> dcdEventControlSetup,
      setup |-> dcdSetup(0, descRequestStandardSetConfiguration, 1, 0, 0)] >>

SameEvent(ev, step) == ev.id = step.id /\ equals(ev.setup, step.setup)

(* The position in the enumeration sequence after event ev is delivered to *)
(* a controller d that had completed k steps of it: the sequence starts    *)
(* with DeviceReady on a NotReady controller, and any other event breaks   *)
(* it off.                                                                 *)
EnumNext(k, d, ev) ==
  IF k < Len(EnumSteps) /\ SameEvent(ev, EnumSteps[k + 1])
       /\ (k > 0 \/ d.st = dcdStateNotReady)
    THEN k + 1
  ELSE IF SameEvent(ev, EnumSteps[1]) /\ d.st = dcdStateNotReady THEN 1
  ELSE 0

(* What the dhw may return from endpointStatus. *)
HwStatusInputs(sup) ==
  IF sup.bmRequestType = 130 /\ sup.bRequest = descRequestStandardGetStatus
    THEN {0, 1, 256} ELSE {0}

(***************************************************************************)
(* Initial state: nothing allocated, every static zeroed.                  *)
(***************************************************************************)
InitDriver ==
  /\ dcdInstance = [i \in Slots |-> ZeroDCD]
  /\ descCDCACM = [k \in 1 .. descCDCACMCount |->
                     [cx |-> ZeroBytes(descCDCACMLineCodingSize)]]
  /\ descHID = [k \in 1 .. descHIDCount |->
                  [cx |-> ZeroBytes(descHIDSxSize), led |-> 0]]
  /\ calls = <<>>
  /\ last = [op |-> "none", i |-> Nil, id |-> 0, status |-> statusOK,
             setup |-> ZeroSetup, class |-> ZeroDCD.cc]
  /\ active = [i \in Slots |-> FALSE]
  /\ panicked = FALSE
  /\ enum = 0

Init ==
  /\ InitDriver
  /\ codec = [op |-> "init", p |-> ZeroSetup, u |-> Zero64, b |-> <<>>]

(* The codec is handed a packet, a uint64 or a byte slice. *)
InitCodec ==
  /\ InitDriver
  /\ \/ \E s \in PacketInputs :
          codec = [op |-> "init", p |-> s, u |-> Zero64, b |-> <<>>]
     \/ \E u \in U64Inputs :
          codec = [op |-> "init", p |-> ZeroSetup, u |-> u, b |-> <<>>]
     \/ \E b \in ByteSliceInputs :
          codec = [op |-> "init", p |-> ZeroSetup, u |-> Zero64, b |-> b]

(***************************************************************************)
(* Actions.                                                                *)
(***************************************************************************)
InitDCD(port, speed, class) ==
  LET r == initDCD(dcdInstance, port, speed, class)
  IN /\ ~panicked
     /\ dcdInstance' = r.pool
     /\ calls' = IF r.status = statusOK
                   THEN << [fn |-> "allocDHW", args |-> <<port, r.ret, speed>>] >>
                   ELSE <<>>
     /\ last' = [op |-> "initDCD", i |-> r.ret, id |-> 0, status |-> r.status,
                  setup |-> ZeroSetup, class |-> class]
     /\ enum' = 0
     /\ UNCHANGED <<descCDCACM, descHID, active, panicked, codec>>

Event(i, ev, hw) ==
  /\ ~panicked
  /\ dcdInstance[i].core # Nil
  /\ \E c \in {event(Ctx(dcdInstance[i]), ev, hw)} :
       /\ dcdInstance' = [dcdInstance EXCEPT ![i] = c.d]
       /\ descCDCACM' = c.acm
       /\ descHID' = c.hid
       /\ calls' = c.calls
       /\ panicked' = c.panic
       /\ last' = [op |-> "event", i |-> i, id |-> ev.id, status |-> statusOK,
                    setup |-> ev.setup, class |-> ZeroDCD.cc]
       /\ active' = [active EXCEPT ![i] =
                       CASE ev.id = dcdEventControlSetup -> TRUE
                         [] ev.id = dcdEventControlComplete -> FALSE
                         [] OTHER -> @]
       /\ enum' = IF c.panic THEN 0
                  ELSE IF i = 0 THEN EnumNext(enum, dcdInstance[0], ev)
                  ELSE enum
       /\ UNCHANGED codec

PlainEvent(i) ==
  \E id \in PlainEventIds : Event(i, [id |-> id, setup |-> ZeroSetup], 0)

ControlSetupEvent(i, S) ==
  \E sup \in S : \E hw \in HwStatusInputs(sup) :
    Event(i, [id |-> dcdEventControlSetup, setup |-> sup], hw)

ControlCompleteEvent(i) ==
  Event(i, [id |-> dcdEventControlComplete, setup |-> ZeroSetup], 0)

(* The data stage of an OUT transfer: the dhw stores what the host sent    *)
(* into the class scratch the armed controlReceive pointed at, up to the   *)
(* length it was armed with.                                               *)
HwReceive(i) ==
  /\ ~panicked
  /\ dcdInstance[i].core # Nil
  /\ active[i]
  /\ dcdInstance[i].stage = dcdStageDataOut
  /\ \E data \in PayloadInputs(dcdInstance[i].cc.id) :
       LET d == dcdInstance[i]
           k == d.cc.config
           n == IF d.cc.id = classDeviceCDCACM
                  THEN descCDCACMLineCodingSize ELSE d.setup.wLength
           Stored(cx) == [j \in DOMAIN cx |-> IF j <= n THEN data[j] ELSE cx[j]]
       IN /\ descCDCACM' = IF d.cc.id = classDeviceCDCACM
                              THEN [descCDCACM EXCEPT ![k].cx = Stored(@)]
                              ELSE descCDCACM
          /\ descHID' = IF d.cc.id = classDeviceHID
                           THEN [descHID EXCEPT ![k].cx = Stored(@)]
                           ELSE descHID
          /\ calls' = <<>>
          /\ last' = [op |-> "receive", i |-> i, id |-> 0, status |-> statusOK,
                       setup |-> ZeroSetup, class |-> ZeroDCD.cc]
          /\ UNCHANGED <<dcdInstance, active, panicked, enum, codec>>

(* The codec operations, each applied to the operand it takes. *)
CodecPack ==
  /\ codec' = [codec EXCEPT !.op = "pack", !.u = pack(codec.p)]
  /\ UNCHANGED <<dcdInstance, descCDCACM, descHID, calls, last, active, panicked, enum>>

CodecSet ==
  /\ codec' = [codec EXCEPT !.op = "set", !.p = set(codec.u)]
  /\ UNCHANGED <<dcdInstance, descCDCACM, descHID, calls, last, active, panicked, enum>>

CodecSetup ==
  /\ codec' = [codec EXCEPT !.op = "setup", !.p = setup(codec.b)]
  /\ UNCHANGED <<dcdInstance, descCDCACM, descHID, calls, last, active, panicked, enum>>

(* The integrator registers its first controller. *)
InitFirst ==
  /\ \A i \in Slots : dcdInstance[i].core = Nil
  /\ \E port \in Ports, speed \in Speeds, class \in ClassInputs :
       InitDCD(port, speed, class)

(***************************************************************************)
(* Spec: one registered controller under every event and SETUP packet.     *)
(***************************************************************************)
Next ==
  \/ InitFirst
  \/ PlainEvent(0)
  \/ ControlSetupEvent(0, StepSetups)
  \/ ControlCompleteEvent(0)

Spec == Init /\ [][Next]_vars


(***************************************************************************)
(* SpecDispatch: one registered controller, every SETUP packet of the      *)
(* request grid dispatched on it, each transfer completed or superseded.   *)
(***************************************************************************)
NextDispatch ==
  \/ InitFirst
  \/ ControlSetupEvent(0, SetupInputs)
  \/ ControlCompleteEvent(0)

SpecDispatch == Init /\ [][NextDispatch]_vars

(***************************************************************************)
(* SpecData: one registered controller, the transfers with a data stage    *)
(* and a completion, with the data the host sends stored by the dhw,       *)
(* between the events of attachment, reset and endpoint traffic.           *)
(***************************************************************************)
DataEventIds ==
  {dcdEventStatusReset, dcdEventDeviceReady, dcdEventDeviceAddress,
   dcdEventTransferComplete}

DataEvent(i) ==
  \E id \in DataEventIds : Event(i, [id |-> id, setup |-> ZeroSetup], 0)

NextData ==
  \/ InitFirst
  \/ DataEvent(0)
  \/ ControlSetupEvent(0, DataSetups)
  \/ HwReceive(0)
  \/ ControlCompleteEvent(0)

SpecData == Init /\ [][NextData]_vars

(***************************************************************************)
(* SpecCodec: the codec operations applied to every operand.               *)
(***************************************************************************)
NextCodec == CodecPack \/ CodecSet \/ CodecSetup

SpecCodec == InitCodec /\ [][NextCodec]_vars

(***************************************************************************)
(* SpecPool: the integrator fills the pool, with any arguments, while the  *)
(* registered controllers go through reset, ready and address events.      *)
(***************************************************************************)
PoolEventIds == {dcdEventStatusReset, dcdEventDeviceReady, dcdEventDeviceAddress}

PoolEvent(i) ==
  \E id \in PoolEventIds : Event(i, [id |-> id, setup |-> ZeroSetup], 0)

InitAny ==
  \E port \in Ports, speed \in Speeds, class \in ClassInputs :
    InitDCD(port, speed, class)

NextPool ==
  \/ InitAny
  \/ \E i \in Slots : PoolEvent(i)

SpecPool == Init /\ [][NextPool]_vars


(***************************************************************************)
(* Properties.                                                             *)
(***************************************************************************)
Used(i) == dcdInstance[i].core # Nil

States == dcdStateNotReady .. dcdStateSuspended

(* The transition table: for each target state, the accepted prior states. *)
AcceptedPrior ==
  [t \in States |->
     CASE t = dcdStateNotReady -> States
       [] t = dcdStateDefault -> {dcdStateNotReady, dcdStateDefault}
       [] t = dcdStateAddressed -> {dcdStateDefault}
       [] t = dcdStateConfigured ->
            {dcdStateAddressed, dcdStateConfigured, dcdStateSuspended}
       [] t = dcdStateSuspended ->
            {dcdStateAddressed, dcdStateConfigured, dcdStateSuspended}]

EventOn(i, id) == last.op = "event" /\ last.i = i /\ last.id = id

(* C1: on every controller, in whatever state it is, setState(new) for each *)
(* of the five states returns true and stores new iff the current state is *)
(* an accepted prior state of new in the transition table; otherwise it    *)
(* returns false and leaves the state, and every other field, as it was.   *)
(* setState(NotReady) always succeeds.                                     *)
C1_SetStateFollowsTable ==
  \A i \in Slots : \A new \in States :
    LET d == dcdInstance[i]
        r == setState(d, new)
    IN /\ r.ok = (d.st \in AcceptedPrior[new])
       /\ r.d.st = IF d.st \in AcceptedPrior[new] THEN new ELSE d.st
       /\ [r.d EXCEPT !.st = d.st] = d
       /\ setState(d, dcdStateNotReady).ok

(* A DeviceAddress event was absorbed by a Configured controller: the      *)
(* rejected pair (Configured, Addressed) has been exercised by the pump.   *)
C1_Witness ==
  /\ EventOn(0, dcdEventDeviceAddress)
  /\ dcdInstance[0].st = dcdStateConfigured
  /\ ~setState(dcdInstance[0], dcdStateAddressed).ok

Rank(st) == IF st = dcdStateSuspended THEN dcdStateConfigured ELSE st

(* C2: every step changes a controller's state only along the table:       *)
(* Default only from NotReady, Addressed only from Default, Configured     *)
(* only from Addressed or Suspended, Suspended only from Addressed or      *)
(* Configured; the state never moves backwards except to NotReady.         *)
C2_StateAdvances ==
  [][\A i \in Slots :
       LET s == dcdInstance[i].st
           t == dcdInstance'[i].st
       IN s # t =>
            /\ s \in AcceptedPrior[t]
            /\ t = dcdStateNotReady \/ Rank(t) >= Rank(s)]_vars

(* A suspended controller has been resumed into Configured. *)
C2_Witness ==
  /\ EventOn(0, dcdEventStatusResume)
  /\ dcdInstance[0].st = dcdStateConfigured


(***************************************************************************)
(* Dispatcher properties (SpecDispatch).                                   *)
(***************************************************************************)
(* The latest operation was a ControlSetup event on slot i that returned. *)
Dispatched(i) == EventOn(i, dcdEventControlSetup) /\ ~panicked

CountCalls(fns) == Cardinality({k \in DOMAIN calls : calls[k].fn \in fns})

TransferCalls == {"controlTransmit", "controlReceive"}

BoundClasses == {classDeviceCDCACM, classDeviceHID}

ReqType(sup) == (sup.bmRequestType \div 32) % 4
Recipient(sup) == sup.bmRequestType % 32
IsIn(sup) == sup.bmRequestType \div 128 = 1

(* The handled rows of the request tables, for a controller bound to id.   *)
StandardRow(sup, id) ==
  /\ ReqType(sup) = 0
  /\ \/ /\ Recipient(sup) = 0 /\ ~IsIn(sup)
        /\ sup.bRequest \in {descRequestStandardSetAddress,
                             descRequestStandardSetConfiguration}
     \/ /\ Recipient(sup) = 0 /\ IsIn(sup)
        /\ sup.bRequest \in {descRequestStandardGetStatus,
                             descRequestStandardGetConfiguration}
     \/ /\ Recipient(sup) \in {0, 1} /\ IsIn(sup)
        /\ sup.bRequest = descRequestStandardGetDescriptor
        /\ id \in BoundClasses
     \/ /\ Recipient(sup) = 1 /\ IsIn(sup)
        /\ sup.bRequest = descHIDRequestGetReport
        /\ id = classDeviceHID
     \/ /\ Recipient(sup) = 2 /\ ~IsIn(sup)
        /\ sup.bRequest \in {descRequestStandardClearFeature,
                             descRequestStandardSetFeature}
     \/ /\ Recipient(sup) = 2 /\ IsIn(sup)
        /\ sup.bRequest = descRequestStandardGetStatus

CDCRow(sup, id) ==
  /\ ReqType(sup) = 1 /\ Recipient(sup) = 1 /\ ~IsIn(sup)
  /\ id = classDeviceCDCACM
  /\ \/ sup.bRequest = descCDCRequestSetLineCoding /\ sup.wLength = 7
     \/ /\ sup.bRequest = descCDCRequestSetControlLineState
        /\ sup.wIndex = descCDCACMInterfaceCtrl
     \/ sup.bRequest = descCDCRequestSendBreak

HIDRow(sup, id) ==
  /\ ReqType(sup) = 1 /\ Recipient(sup) = 1
  /\ id = classDeviceHID
  /\ \/ /\ ~IsIn(sup) /\ sup.bRequest = descHIDRequestSetReport
        /\ sup.wLength <= descHIDSxSize
     \/ ~IsIn(sup) /\ sup.bRequest = descHIDRequestSetIdle
     \/ IsIn(sup) /\ sup.bRequest = descHIDRequestGetReport

HandledRow(sup, id) == StandardRow(sup, id) \/ CDCRow(sup, id) \/ HIDRow(sup, id)

(* C4: a ControlSetup event whose packet matches no handled row (Vendor    *)
(* and reserved types, unhandled recipient/direction, unhandled bRequest,  *)
(* a class request on a controller bound to the other class, CDC           *)
(* SET_CONTROL_LINE_STATE off the control interface) leaves stage Stall.   *)
C4_UnmatchedStalls ==
  \A i \in Slots :
    (Dispatched(i) /\ ~HandledRow(dcdInstance[i].setup, dcdInstance[i].cc.id))
    => dcdInstance[i].stage = dcdStageStall

(* CDC SET_CONTROL_LINE_STATE addressed to interface 1 has been stalled on *)
(* a CDC-ACM controller.                                                   *)
C4_Witness ==
  /\ Dispatched(0)
  /\ dcdInstance[0].cc.id = classDeviceCDCACM
  /\ dcdInstance[0].setup = dcdSetup(33, descCDCRequestSetControlLineState, 3, 1, 0)
  /\ dcdInstance[0].stage = dcdStageStall

StallCall(dir) == [fn |-> "controlStall", args |-> <<1, dir>>]

(* C5: after a ControlSetup event, if the stage is Stall then controlStall *)
(* was called exactly once, as controlStall(true, bit 7 of bmRequestType), *)
(* and neither controlTransmit nor controlReceive was called; if the stage *)
(* is not Stall then controlStall was not called.                          *)
C5_StallCalledOnce ==
  \A i \in Slots :
    Dispatched(i) =>
      IF dcdInstance[i].stage = dcdStageStall
        THEN /\ CountCalls({"controlStall"}) = 1
             /\ \E k \in DOMAIN calls :
                  calls[k] = StallCall(dcdInstance[i].setup.bmRequestType \div 128)
             /\ CountCalls(TransferCalls) = 0
        ELSE CountCalls({"controlStall"}) = 0

(* The Vendor IN request C0 FF has been answered by controlStall(true, 1). *)
C5_Witness ==
  /\ Dispatched(0)
  /\ dcdInstance[0].setup = dcdSetup(192, 255, 0, 0, 0)
  /\ calls = << StallCall(1) >>


C7_CompleteClearsSetup ==
  \A i \in Slots :
    (EventOn(i, dcdEventControlComplete) /\ ~panicked)
    => dcdInstance[i].setup = ZeroSetup

(* A completion that did its work (uartSetLineState) has cleared the       *)
(* stored packet.                                                          *)
C7_Witness ==
  /\ EventOn(0, dcdEventControlComplete)
  /\ calls = << [fn |-> "uartSetLineState", args |-> <<3>>] >>
  /\ dcdInstance[0].setup = ZeroSetup
  /\ ~active[0]

(* C8, for a controller bound to CDC-ACM (whose config index initDCD has   *)
(* validated): in every reachable state 0 < config <= descCDCACMCount.     *)
C8_ConfigInRange ==
  \A i \in Slots :
    (Used(i) /\ dcdInstance[i].cc.id = classDeviceCDCACM)
    => /\ 0 < dcdInstance[i].cc.config
       /\ dcdInstance[i].cc.config <= descCDCACMCount


(***************************************************************************)
(* Properties of the instance pool (SpecPool).                             *)
(***************************************************************************)
ClassCount(id) ==
  CASE id = classDeviceCDCACM -> descCDCACMCount
    [] id = classDeviceHID -> descHIDCount
    [] OTHER -> 0

(* The arguments violate a precondition: no pool, unknown class, or a      *)
(* config index that is zero or above the count of its class.              *)
BadArguments(class) ==
  \/ dcdCount = 0
  \/ class.id \notin BoundClasses
  \/ class.config = 0
  \/ class.config > ClassCount(class.id)

(* C9: an initDCD call whose arguments violate a precondition returns      *)
(* (nil, Invalid).                                                         *)
C9_InvalidOnBadArguments ==
  (last.op = "initDCD" /\ BadArguments(last.class))
  => (last.status = statusInvalid /\ last.i = Nil)

Full(pool) == FreeSlots(pool) = {}

(* C10 as stated: an initDCD call made when the pool is full returns       *)
(* (nil, Busy) and changes no slot, whatever its arguments.                *)
C10_BusyWhenFull ==
  [][(Full(dcdInstance) /\ last'.op = "initDCD")
       => /\ last'.status = statusBusy
          /\ last'.i = Nil
          /\ dcdInstance' = dcdInstance]_vars

(* What initDCD checks before it searches the pool. *)
RejectedFirst(class) ==
  /\ class.id = classDeviceCDCACM
  /\ class.config = 0 \/ class.config > descCDCACMCount

(* C10 amended: an initDCD call made when the pool is full returns nil,    *)
(* changes no slot and allocates no dhw; its status is Busy, except that   *)
(* it is Invalid for a CDC-ACM class whose config index is zero or above   *)
(* descCDCACMCount.  Before that, a successful call reserves the           *)
(* lowest-index slot whose core is unset, leaves it in state NotReady and  *)
(* leaves every other slot as it was.                                      *)
C10_FullPoolUntouched ==
  [][last'.op = "initDCD" =>
       IF Full(dcdInstance)
         THEN /\ last'.i = Nil
              /\ dcdInstance' = dcdInstance
              /\ calls' = <<>>
              /\ last'.status =
                   IF RejectedFirst(last'.class) THEN statusInvalid ELSE statusBusy
         ELSE last'.status = statusOK =>
                /\ last'.i \in FreeSlots(dcdInstance)
                /\ \A j \in FreeSlots(dcdInstance) : last'.i <= j
                /\ dcdInstance'[last'.i].core # Nil
                /\ dcdInstance'[last'.i].st = dcdStateNotReady
                /\ \A j \in Slots \ {last'.i} : dcdInstance'[j] = dcdInstance[j]]_vars

(* The pool is full, its controllers have left NotReady, and a further     *)
(* call has returned (nil, Busy).                                          *)
C10_Witness ==
  /\ Full(dcdInstance)
  /\ \A i \in Slots : dcdInstance[i].st # dcdStateNotReady
  /\ last.op = "initDCD"
  /\ last.status = statusBusy
  /\ last.i = Nil


(***************************************************************************)
(* Properties of the descriptor responder (SpecDispatch).                  *)
(***************************************************************************)
IsGetDescriptor(sup) ==
  /\ ReqType(sup) = 0 /\ IsIn(sup) /\ Recipient(sup) \in {0, 1}
  /\ sup.bRequest = descRequestStandardGetDescriptor

(* The length of the descriptor a controller bound to class id answers the *)
(* request with; 0 when it has none.                                       *)
DescriptorLen(id, sup) ==
  LET type == sup.wValue \div 256
  IN CASE type = descTypeDevice -> descLengthDevice
       [] type = descTypeConfigure ->
            IF id = classDeviceCDCACM THEN descCDCACMConfigSize ELSE descHIDConfigSize
       [] type = descTypeString ->
            StringDxn(sup, IF id = classDeviceCDCACM
                             THEN classSuffixCDCACMLen ELSE classSuffixHIDLen)
       [] type = descTypeQualification -> descLengthQualification
       [] type = descTypeHID /\ id = classDeviceHID ->
            IF 0 # HIDConfigPos(sup.wIndex) THEN descLengthInterface ELSE 0
       [] type = descTypeHIDReport /\ id = classDeviceHID -> HIDReportLen(sup.wIndex)
       [] OTHER -> 0

Min(a, b) == IF a < b THEN a ELSE b

TransmitLens == {calls[k].args[2] : k \in {j \in DOMAIN calls : calls[j].fn = "controlTransmit"}}

(* C11: after a GET_DESCRIPTOR request answered with a descriptor of       *)
(* length dxn > 0, controlTransmit has been called once, with the length   *)
(* min(dxn, wLength), for every 16-bit wLength.                            *)
C11_TransmitMin ==
  \A i \in Slots :
    ( /\ Dispatched(i)
      /\ dcdInstance[i].cc.id \in BoundClasses
      /\ IsGetDescriptor(dcdInstance[i].setup)
      /\ DescriptorLen(dcdInstance[i].cc.id, dcdInstance[i].setup) > 0 )
    => /\ CountCalls({"controlTransmit"}) = 1
       /\ TransmitLens =
            { Min(DescriptorLen(dcdInstance[i].cc.id, dcdInstance[i].setup),
                  dcdInstance[i].setup.wLength) }


(***************************************************************************)
(* Properties of the SETUP packet codec (SpecCodec).                       *)
(***************************************************************************)
(* The eight bytes of a SETUP packet on the wire, each 16-bit field low    *)
(* byte first.                                                             *)
WireBytes(s) ==
  << s.bmRequestType, s.bRequest, s.wValue % 256, s.wValue \div 256,
     s.wIndex % 256, s.wIndex \div 256, s.wLength % 256, s.wLength \div 256 >>

(* C12: set(pack(P)) equals P field-wise and pack(set(u)) = u, with        *)
(* bmRequestType in bits 0..7, bRequest in 8..15, wValue in 16..31, wIndex *)
(* in 32..47 and wLength in 48..63 of the uint64; setup on the eight wire  *)
(* bytes of P yields P, and setup on fewer than eight bytes yields the     *)
(* all-zero packet.                                                        *)
C12_CodecRoundTrip ==
  /\ equals(set(pack(codec.p)), codec.p)
  /\ pack(codec.p) = WireBytes(codec.p)
  /\ pack(set(codec.u)) = codec.u
  /\ equals(setup(WireBytes(codec.p)), codec.p)
  /\ codec.op = "pack" => equals(set(codec.u), codec.p)
  /\ codec.op = "set" => pack(codec.p) = codec.u
  /\ codec.op = "setup" =>
       IF Len(codec.b) < dcdSetupSize
         THEN equals(codec.p, ZeroSetup)
         ELSE WireBytes(codec.p) = SubSeq(codec.b, 1, dcdSetupSize)

(* set has decoded a uint64 whose wIndex bits are 0x0409 into a packet     *)
(* that packs back to it.                                                  *)
C12_Witness ==
  /\ codec.op = "pack"
  /\ codec.p.wIndex = 1033
  /\ codec.p.wLength = 65535
  /\ codec.u[5] = 9 /\ codec.u[6] = 4 /\ codec.u[7] = 255 /\ codec.u[8] = 255


(***************************************************************************)
(* Enumeration (Spec).                                                     *)
(***************************************************************************)
ConfigureCalls(id) ==
  IF id = classDeviceCDCACM
    THEN << [fn |-> "uartConfigure", args |-> <<>>],
            [fn |-> "controlReceive", args |-> <<0, 0, 0>>] >>
    ELSE << [fn |-> "serialConfigure", args |-> <<>>],
            [fn |-> "keyboardConfigure", args |-> <<>>],
            [fn |-> "mouseConfigure", args |-> <<>>],
            [fn |-> "joystickConfigure", args |-> <<>>],
            [fn |-> "controlReceive", args |-> <<0, 0, 0>>] >>

(* C13: on a controller bound to CDC-ACM or HID that starts NotReady, the  *)
(* events DeviceReady, ControlSetup(GET_DESCRIPTOR Device, wLength 18),    *)
(* ControlSetup(SET_ADDRESS 5), DeviceAddress, ControlSetup(               *)
(* SET_CONFIGURATION 1), in this order, leave the state Default with       *)
(* endpoint 0 enabled, keep it Default through the descriptor read and     *)
(* SET_ADDRESS (which calls setDeviceAddress(5), then arms a zero-length   *)
(* receive and returns StatusOut), move it to Addressed at DeviceAddress   *)
(* and to Configured at SET_CONFIGURATION, where the configure callbacks   *)
(* of the bound class are called and a zero-length receive is armed.       *)
C13_Enumeration ==
  (enum > 0 /\ ~panicked /\ dcdInstance[0].cc.id \in BoundClasses) =>
    LET d == dcdInstance[0]
    IN CASE enum = 1 ->
              /\ d.st = dcdStateDefault
              /\ calls = << [fn |-> "endpointEnable", args |-> <<0, 1, 0>>] >>
         [] enum = 2 ->
              /\ d.st = dcdStateDefault
              /\ d.stage = dcdStageDataIn
              /\ TransmitLens = {descLengthDevice}
         [] enum = 3 ->
              /\ d.st = dcdStateDefault
              /\ d.stage = dcdStageStatusOut
              /\ calls = << [fn |-> "setDeviceAddress", args |-> <<5>>],
                            [fn |-> "controlReceive", args |-> <<0, 0, 0>>] >>
         [] enum = 4 -> d.st = dcdStateAddressed /\ calls = <<>>
         [] OTHER ->
              /\ enum = Len(EnumSteps)
              /\ d.st = dcdStateConfigured
              /\ d.stage = dcdStageStatusOut
              /\ d.cc.config = 1
              /\ calls = ConfigureCalls(d.cc.id)

(* The enumeration sequence has been run to its end on a HID controller.   *)
C13_Witness ==
  /\ enum = Len(EnumSteps)
  /\ dcdInstance[0].cc.id = classDeviceHID
  /\ dcdInstance[0].st = dcdStateConfigured
  /\ Dispatched(0)


(***************************************************************************)
(* The stored configuration index (SpecDispatch).                          *)
(***************************************************************************)
IsSetConfiguration(sup) ==
  /\ ReqType(sup) = 0 /\ ~IsIn(sup) /\ Recipient(sup) = 0
  /\ sup.bRequest = descRequestStandardSetConfiguration

IsGetConfiguration(sup) ==
  /\ ReqType(sup) = 0 /\ IsIn(sup) /\ Recipient(sup) = 0
  /\ sup.bRequest = descRequestStandardGetConfiguration

(* C14: a SET_CONFIGURATION(wValue) request stores config = 1 when wValue  *)
(* is 0 or above dcdCount and config = wValue otherwise; no other event    *)
(* changes the stored config; a GET_CONFIGURATION request transmits        *)
(* exactly one byte, equal to the stored config, and returns DataIn.       *)
C14_ConfigStoredAndReported ==
  [][\A i \in Slots :
       (last'.op = "event" /\ last'.i = i /\ ~panicked') =>
         LET sup == last'.setup
             d == dcdInstance[i]
             e == dcdInstance'[i]
             isSetup == last'.id = dcdEventControlSetup
         IN /\ e.cc.config =
                 IF isSetup /\ IsSetConfiguration(sup)
                   THEN (IF sup.wValue = 0 \/ sup.wValue > dcdCount
                           THEN 1 ELSE sup.wValue)
                   ELSE d.cc.config
            /\ (isSetup /\ IsGetConfiguration(sup)) =>
                 /\ e.stage = dcdStageDataIn
                 /\ calls' = << [fn |-> "controlStatusBuffer",
                                  args |-> <<d.cc.config>>],
                                 [fn |-> "controlTransmit",
                                  args |-> <<AddrStatus, 1, 0>>] >>]_vars

(* GET_CONFIGURATION has reported the index 2 that SET_CONFIGURATION 2     *)
(* stored on a CDC-ACM controller.                                         *)
C14_Witness ==
  /\ Dispatched(0)
  /\ IsGetConfiguration(dcdInstance[0].setup)
  /\ dcdInstance[0].cc.id = classDeviceCDCACM
  /\ dcdInstance[0].cc.config = 2
  /\ calls[1] = [fn |-> "controlStatusBuffer", args |-> <<2>>]


(***************************************************************************)
(* Properties of the class requests with a data stage (SpecData).          *)
(***************************************************************************)
IsClassInterfaceOut(sup) == ReqType(sup) = 1 /\ Recipient(sup) = 1 /\ ~IsIn(sup)

IsSetLineCoding(sup) ==
  IsClassInterfaceOut(sup) /\ sup.bRequest = descCDCRequestSetLineCoding

IsSetReport(sup) ==
  IsClassInterfaceOut(sup) /\ sup.bRequest = descHIDRequestSetReport

(* The step is the event id delivered to slot i, and it returned. *)
EventStep(i, id) ==
  last'.op = "event" /\ last'.i = i /\ last'.id = id /\ ~panicked'

ReceiveCalls(cs) == {k \in DOMAIN cs : cs[k].fn = "controlReceive"}

(* The SETUP phase of SET_LINE_CODING on a CDC-ACM controller: with        *)
(* wLength 7 one 7-byte receive into the class scratch and DataOut, with   *)
(* any other wLength Stall and no receive.                                 *)
LineCodingArmed(i) ==
  ( /\ EventStep(i, dcdEventControlSetup)
    /\ IsSetLineCoding(last'.setup)
    /\ dcdInstance[i].cc.id = classDeviceCDCACM )
  => IF last'.setup.wLength = descCDCACMLineCodingSize
       THEN /\ dcdInstance'[i].stage = dcdStageDataOut
            /\ calls' = << [fn |-> "controlReceive",
                             args |-> <<AddrCDCACMcx(dcdInstance[i].cc.config),
                                        descCDCACMLineCodingSize, 1>>] >>
       ELSE /\ dcdInstance'[i].stage = dcdStageStall
            /\ ReceiveCalls(calls') = {}

(* The completion of an accepted SET_LINE_CODING is being run. *)
LineCodingCompletes(i) ==
  /\ EventStep(i, dcdEventControlComplete)
  /\ IsSetLineCoding(dcdInstance[i].setup)
  /\ dcdInstance[i].setup.wLength = descCDCACMLineCodingSize
  /\ dcdInstance[i].cc.id = classDeviceCDCACM

LineCodingCall(i) ==
  [fn |-> "uartSetLineCoding", args |-> descCDCACM[dcdInstance[i].cc.config].cx]

SOFCalls(cs) == {k \in DOMAIN cs : cs[k].fn = "enableSOF"}

(* The key 0x68C245A9, least significant byte first. *)
SOFKey == <<169, 69, 194, 104>>

(* What the completion requires to enable the start-of-frame interrupt. *)
SOFCondition(d, hid) ==
  /\ d.cc.id = classDeviceHID
  /\ IsSetReport(d.setup)
  /\ d.setup.wIndex = descHIDInterfaceSerial
  /\ d.setup.wValue \div 256 = descTypeString
  /\ d.setup.wLength >= 4
  /\ d.cc.config \in DOMAIN hid
  /\ SubSeq(hid[d.cc.config].cx, 1, 4) = SOFKey

(* C16: a step calls enableSOF iff it is a ControlComplete event on a HID  *)
(* controller whose stored SETUP packet is a class/interface/OUT           *)
(* SET_REPORT with wIndex the Serial interface, wValue >> 8 the String     *)
(* descriptor type and wLength >= 4, while the first four bytes of the HID *)
(* scratch are A9 45 C2 68; the call is enableSOF(true,                    *)
(* descHIDInterfaceCount), made once.  A HID SET_REPORT with wLength above *)
(* the scratch size stalls in the SETUP phase and arms no receive.         *)
C16_EnableSOFOnlyOnKey ==
  [][~panicked' =>
       /\ (SOFCalls(calls') # {}) <=>
            ( /\ last'.op = "event"
              /\ last'.id = dcdEventControlComplete
              /\ SOFCondition(dcdInstance[last'.i], descHID) )
       /\ SOFCalls(calls') # {} =>
            calls' = << [fn |-> "enableSOF", args |-> <<1, descHIDInterfaceCount>>] >>
       /\ \A i \in Slots :
            ( /\ EventStep(i, dcdEventControlSetup)
              /\ IsSetReport(last'.setup)
              /\ dcdInstance[i].cc.id = classDeviceHID
              /\ last'.setup.wLength > descHIDSxSize )
            => /\ dcdInstance'[i].stage = dcdStageStall
               /\ ReceiveCalls(calls') = {}]_vars

(* The completion of a SET_REPORT that delivered the key has enabled the   *)
(* start-of-frame interrupt.                                               *)
C16_Witness ==
  /\ EventOn(0, dcdEventControlComplete)
  /\ dcdInstance[0].cc.id = classDeviceHID
  /\ SubSeq(descHID[1].cx, 1, 4) = SOFKey
  /\ calls = << [fn |-> "enableSOF", args |-> <<1, descHIDInterfaceCount>>] >>


(***************************************************************************)
(* Properties of the events of the pump (Spec).                            *)
(***************************************************************************)
Operational == {dcdStateAddressed, dcdStateConfigured, dcdStateSuspended}

(* C17: StatusSuspend moves the state to Suspended from Addressed,         *)
(* Configured or Suspended, and StatusResume moves it to Configured from   *)
(* Addressed, Configured or Suspended (so a device suspended from          *)
(* Addressed resumes into Configured); both leave the state as it was in   *)
(* NotReady and Default.                                                   *)
C17_SuspendResume ==
  [][\A i \in Slots :
       LET s == dcdInstance[i].st
           t == dcdInstance'[i].st
       IN /\ EventStep(i, dcdEventStatusSuspend) =>
               t = IF s \in Operational THEN dcdStateSuspended ELSE s
          /\ EventStep(i, dcdEventStatusResume) =>
               t = IF s \in Operational THEN dcdStateConfigured ELSE s]_vars

(* A StatusSuspend event has suspended the controller. *)
C17_Witness ==
  /\ EventOn(0, dcdEventStatusSuspend)
  /\ dcdInstance[0].st = dcdStateSuspended
  /\ calls = <<>>

(* C18: a DeviceReady event calls endpointEnable(0, true, 0) exactly once  *)
(* and leaves the state Default iff the prior state is NotReady or         *)
(* Default; in Addressed, Configured or Suspended it changes nothing and   *)
(* makes no dhw call.                                                      *)
C18_ReadyEnablesEndpoint0 ==
  [][\A i \in Slots :
       EventStep(i, dcdEventDeviceReady) =>
         IF dcdInstance[i].st \in {dcdStateNotReady, dcdStateDefault}
           THEN /\ dcdInstance'[i].st = dcdStateDefault
                /\ calls' = << [fn |-> "endpointEnable", args |-> <<0, 1, 0>>] >>
           ELSE /\ dcdInstance'[i] = dcdInstance[i]
                /\ calls' = <<>>]_vars

(* A DeviceReady event has been absorbed by a Configured controller. *)
C18_Witness ==
  /\ EventOn(0, dcdEventDeviceReady)
  /\ dcdInstance[0].st = dcdStateConfigured
  /\ calls = <<>>

NoOpEventIds ==
  {dcdEventTransferComplete, dcdEventInvalid, dcdEventStatusError, dcdEventTimer}

C20_StallClearsSetup ==
  \A i \in Slots :
    (Dispatched(i) /\ dcdInstance[i].stage = dcdStageStall)
    => dcdInstance[i].setup = ZeroSetup

(***************************************************************************)
(* Completions that do nothing.                                            *)
(***************************************************************************)
(* The stored packet reaches one of the class arms of controlComplete that *)
(* act: SET_LINE_CODING or SET_CONTROL_LINE_STATE on the control interface *)
(* of a CDC-ACM controller, SET_REPORT on the Keyboard or Serial interface *)
(* of a HID controller.                                                    *)
ClassCompletion(d) ==
  /\ IsClassInterfaceOut(d.setup)
  /\ \/ /\ d.cc.id = classDeviceCDCACM
        /\ d.setup.bRequest \in {descCDCRequestSetLineCoding,
                                 descCDCRequestSetControlLineState}
        /\ d.setup.wIndex = descCDCACMInterfaceCtrl
     \/ /\ d.cc.id = classDeviceHID
        /\ d.setup.bRequest = descHIDRequestSetReport
        /\ d.setup.wIndex \in {descHIDInterfaceKeyboard, descHIDInterfaceSerial}

IsSetControlLineState(sup) ==
  IsClassInterfaceOut(sup) /\ sup.bRequest = descCDCRequestSetControlLineState

(* The step is a ControlComplete event delivered to controller i. *)
CompleteStep(i) ==
  last'.op = "event" /\ last'.i = i /\ last'.id = dcdEventControlComplete

(* The step left everything but the stored SETUP packet as it was, made no *)
(* dhw call, and zeroed the stored SETUP packet.                           *)
Ignored(i) ==
  /\ ~panicked'
  /\ calls' = <<>>
  /\ dcdInstance' = [dcdInstance EXCEPT ![i].setup = ZeroSetup]
  /\ descCDCACM' = descCDCACM
  /\ descHID' = descHID

(* C21: a ControlComplete event whose stored SETUP packet is not one of    *)
(* the class completions is ignored: no dhw call, nothing changed but the  *)
(* stored SETUP packet, which is zeroed; SET_CONTROL_LINE_STATE on the     *)
(* control interface of a CDC-ACM controller calls uartSetLineState once   *)
(* with the stored wValue.                                                 *)
C21_OtherCompletionsIgnored ==
  [][\A i \in Slots :
       CompleteStep(i) =>
         /\ ~ClassCompletion(dcdInstance[i]) => Ignored(i)
         /\ (/\ dcdInstance[i].cc.id = classDeviceCDCACM
             /\ IsSetControlLineState(dcdInstance[i].setup)
             /\ dcdInstance[i].setup.wIndex = descCDCACMInterfaceCtrl)
            => /\ ~panicked'
               /\ calls' = << [fn |-> "uartSetLineState",
                               args |-> <<dcdInstance[i].setup.wValue>>] >>
               /\ dcdInstance' = [dcdInstance EXCEPT ![i].setup = ZeroSetup]]_vars


(***************************************************************************)
(* Descriptor requests without data, and the language list.                *)
(***************************************************************************)
KnownDescriptorTypes(id) ==
  {descTypeDevice, descTypeConfigure, descTypeString, descTypeQualification,
   descTypeOtherSpeedConfiguration}
  \cup (IF id = classDeviceHID THEN {descTypeHID, descTypeHIDReport} ELSE {})

HIDInterfaces ==
  {descHIDInterfaceKeyboard, descHIDInterfaceMouse, descHIDInterfaceSerial,
   descHIDInterfaceJoystick, descHIDInterfaceMediaKey}

(* The requests the responder of class id has no data for: the other-speed *)
(* configuration, an unknown descriptor type, a string of index > 0 in a   *)
(* language of no locale, a HID or HID report descriptor of an unknown     *)
(* interface.                                                              *)
NoDataRequest(id, sup) ==
  LET type == sup.wValue \div 256
  IN \/ type = descTypeOtherSpeedConfiguration
     \/ type \notin KnownDescriptorTypes(id)
     \/ /\ type = descTypeString
        /\ U8(sup.wValue) > 0
        /\ \A k \in Locales : locale[k].language # sup.wIndex
     \/ /\ id = classDeviceHID
        /\ type \in {descTypeHID, descTypeHIDReport}
        /\ sup.wIndex \notin HIDInterfaces

(* C22: a GET_DESCRIPTOR request the responder has no data for issues no   *)
(* controlTransmit, no flushCache and no controlStall, and the stage the   *)
(* dispatcher returns is DataIn.                                           *)
C22_NoDataNoTransmit ==
  \A i \in Slots :
    (/\ EventOn(i, dcdEventControlSetup)
     /\ dcdInstance[i].cc.id \in BoundClasses
     /\ IsGetDescriptor(last.setup)
     /\ NoDataRequest(dcdInstance[i].cc.id, last.setup))
    => /\ CountCalls({"controlTransmit", "flushCache", "controlStall"}) = 0
       /\ ~panicked => dcdInstance[i].stage = dcdStageDataIn

(* A string of a language of no locale was requested and nothing was sent. *)
C22_Witness ==
  /\ Dispatched(0)
  /\ dcdInstance[0].cc.id \in BoundClasses
  /\ IsGetDescriptor(last.setup)
  /\ last.setup.wValue = 770
  /\ last.setup.wIndex = 1036
  /\ dcdInstance[0].stage = dcdStageDataIn
  /\ calls = <<>>

LanguageListRequest(sup) ==
  /\ IsGetDescriptor(sup)
  /\ sup.wValue \div 256 = descTypeString
  /\ U8(sup.wValue) = 0

(* The locale and descriptor index of each string descriptor copied into   *)
(* the response buffer.                                                    *)
CopySources ==
  {<<calls[k].args[2], calls[k].args[3]>> :
     k \in {j \in DOMAIN calls : calls[j].fn = "copy"}}

(* C23 as stated: a language-list request is answered with descriptor 0 of *)
(* locale[code], code = min(wIndex, len(locale) - 1).                      *)
C23_LanguageCodeMin ==
  \A i \in Slots :
    (/\ Dispatched(i)
     /\ dcdInstance[i].cc.id \in BoundClasses
     /\ LanguageListRequest(last.setup))
    => /\ CopySources = {<<Min(last.setup.wIndex, Len(locale) - 1), 0>>}
       /\ CountCalls({"controlTransmit"}) = 1

(* C23: a language-list request is answered with descriptor 0 of           *)
(* locale[code], code = wIndex when wIndex < len(locale), else 0.          *)
C23_LanguageCodeOrZero ==
  \A i \in Slots :
    (/\ Dispatched(i)
     /\ dcdInstance[i].cc.id \in BoundClasses
     /\ LanguageListRequest(last.setup))
    => /\ CopySources =
            {<<IF last.setup.wIndex < Len(locale) THEN last.setup.wIndex ELSE 0, 0>>}
       /\ CountCalls({"controlTransmit"}) = 1

(* A language-list request with wIndex = len(locale) was answered from     *)
(* locale 0.                                                               *)
C23_Witness ==
  /\ Dispatched(0)
  /\ dcdInstance[0].cc.id \in BoundClasses
  /\ LanguageListRequest(last.setup)
  /\ last.setup.wIndex = Len(locale)
  /\ CopySources = {<<0, 0>>}
  /\ CountCalls({"controlTransmit"}) = 1


(***************************************************************************)
(* SET_CONFIGURATION in every device state.                                *)
(***************************************************************************)
(* C24: every SET_CONFIGURATION request calls the configure callbacks of   *)
(* the bound class (CDC-ACM: uartConfigure; HID: serial, keyboard, mouse,  *)
(* joystick), arms the zero-length status receive and returns StatusOut,   *)
(* in every device state: the state becomes Configured from Addressed,     *)
(* Configured and Suspended and stays NotReady or Default otherwise, and   *)
(* the stored SETUP packet is the request's packet after the nested event. *)
(* A controller of an unhandled class makes no call and returns StatusOut. *)
C24_SetConfigurationInEveryState ==
  [][\A i \in Slots :
       (/\ last'.op = "event" /\ last'.i = i
        /\ last'.id = dcdEventControlSetup
        /\ IsSetConfiguration(last'.setup))
       => LET d == dcdInstance[i]
              e == dcdInstance'[i]
          IN /\ ~panicked'
             /\ e.stage = dcdStageStatusOut
             /\ equals(e.setup, last'.setup)
             /\ e.st = IF d.st \in Operational THEN dcdStateConfigured ELSE d.st
             /\ calls' = IF d.cc.id \in BoundClasses
                           THEN ConfigureCalls(d.cc.id) ELSE <<>>]_vars

(* SET_CONFIGURATION was answered on a controller that stayed Default.     *)
C24_Witness ==
  /\ Dispatched(0)
  /\ IsSetConfiguration(last.setup)
  /\ dcdInstance[0].st = dcdStateDefault
  /\ dcdInstance[0].stage = dcdStageStatusOut
  /\ dcdInstance[0].cc.id \in BoundClasses
  /\ calls = ConfigureCalls(dcdInstance[0].cc.id)


(***************************************************************************)
(* Completion after a stalled SETUP phase.                                 *)
(***************************************************************************)
CompletionCalls ==
  {"uartSetLineCoding", "uartSetLineState", "controlTransmit", "enableSOF"}

(* C25: a ControlComplete event that follows a ControlSetup event whose    *)
(* dispatch returned Stall does no completion work: it calls none of       *)
(* uartSetLineCoding, uartSetLineState, controlTransmit and enableSOF, and *)
(* does not update the keyboard LEDs from the scratch.                     *)
C25_NoCompletionAfterStall ==
  [][\A i \in Slots :
       (/\ CompleteStep(i)
        /\ active[i]
        /\ dcdInstance[i].stage = dcdStageStall)
       => /\ ~panicked'
          /\ \A k \in DOMAIN calls' : calls'[k].fn \notin CompletionCalls
          /\ \A k \in DOMAIN descHID : descHID'[k].led = descHID[k].led]_vars


(***************************************************************************)
(* The sentinel of an accepted SET_REPORT.                                 *)
(***************************************************************************)
(* The SETUP phase of a HID SET_REPORT that fits the scratch is being run. *)
SetReportAccepted(i) ==
  /\ EventStep(i, dcdEventControlSetup)
  /\ IsSetReport(last'.setup)
  /\ dcdInstance[i].cc.id = classDeviceHID
  /\ last'.setup.wLength <= descHIDSxSize

(* The completion of an accepted HID SET_REPORT is being run right after   *)
(* its SETUP phase: the dhw stored no payload in between.                  *)
SetReportCompletesUnwritten(i) ==
  /\ CompleteStep(i)
  /\ Dispatched(i)
  /\ IsSetReport(last.setup)
  /\ dcdInstance[i].cc.id = classDeviceHID
  /\ dcdInstance[i].stage = dcdStageDataOut

(* C26: every accepted HID SET_REPORT writes 0xE9 to byte 0 of the scratch *)
(* and arms the receive of wLength bytes, returning DataOut; when the      *)
(* ControlComplete event follows with no payload stored, enableSOF is not  *)
(* called, whatever the scratch held before.                               *)
C26_SentinelBlocksStaleKey ==
  [][\A i \in Slots :
       /\ SetReportAccepted(i) =>
            /\ dcdInstance'[i].stage = dcdStageDataOut
            /\ descHID' = [descHID EXCEPT ![dcdInstance[i].cc.config].cx[1] = 233]
            /\ calls' = << [fn |-> "controlReceive",
                             args |-> <<AddrHIDcx(dcdInstance[i].cc.config),
                                        last'.setup.wLength, 1>>] >>
       /\ SetReportCompletesUnwritten(i) =>
            /\ ~panicked'
            /\ SOFCalls(calls') = {}
            /\ descHID'[dcdInstance[i].cc.config].cx = descHID[dcdInstance[i].cc.config].cx
            /\ descHID[dcdInstance[i].cc.config].cx[1] = 233]_vars

(* A SET_REPORT on the Serial interface was accepted while the scratch     *)
(* held the key of an earlier transfer: byte 0 is now the sentinel.        *)
C26_Witness ==
  /\ Dispatched(0)
  /\ IsSetReport(last.setup)
  /\ dcdInstance[0].cc.id = classDeviceHID
  /\ last.setup.wIndex = descHIDInterfaceSerial
  /\ last.setup.wValue \div 256 = descTypeString
  /\ last.setup.wLength >= 4
  /\ dcdInstance[0].stage = dcdStageDataOut
  /\ SubSeq(descHID[1].cx, 1, 4) = <<233, 69, 194, 104>>


====
